---- MODULE Spec2Model ----
(***************************************************************************)
(* Model of src/src/imperative_shell/readwise.py: the coroutine            *)
(* get_list_of_all_articles, which pages through the Readwise list         *)
(* endpoint with a cursor and accumulates ReadwiseItem records.            *)
(*                                                                         *)
(* The server is the environment: every response (status and body) and a   *)
(* transport failure are chosen nondeterministically at each request.      *)
(***************************************************************************)
EXTENDS Integers, Sequences, FiniteSets, TLC

VARIABLES
    pc,                 \* position of the coroutine
    results,            \* local `results` (line 13)
    parsed_all_results, \* local `parsed_all_results` (line 14)
    next_page_cursor,   \* local `next_page_cursor` (line 15)
    client_open,        \* the httpx.AsyncClient of the `async with` block is open
    request,            \* query parameter of the request most recently issued
    n_requests,         \* number of requests issued so far
    in_flight,          \* number of requests issued and not yet answered or failed
    response,           \* local `response` (line 18); NoResponse while a request is in flight
    returned,           \* how the call ended: pending, None, a list, or a raise
    supplied,           \* history: the nextPageCursor value the server supplied last
    served,             \* history: the entries of the success pages answered so far
    chain               \* history: shape of the sequence of answers so far

vars == <<pc, results, parsed_all_results, next_page_cursor, client_open,
          request, n_requests, in_flight, response, returned, supplied,
          served, chain>>

----------------------------------------------------------------------------
(* Bounds of the model *)

\* most requests one invocation issues in the model
MaxRequests == 3
\* most entries in the `results` field of one page
MaxItems == 2

----------------------------------------------------------------------------
(* Values.  Python's None and a missing dict key are marker strings that   *)
(* are different from every data string of the model.                      *)

PyNone == "<None>"
Absent == "<absent>"
NoParam == "<no-params>"

\* JSON objects of a page's `results`: id, url and title may each be missing
Entries ==
    { [id |-> "1",    url |-> "u1",   title |-> Absent],
      [id |-> "2",    url |-> "u2",   title |-> "T"],
      [id |-> Absent, url |-> "u3",   title |-> "T"],
      [id |-> "4",    url |-> Absent, title |-> Absent] }

RECURSIVE SeqsUpTo(_, _)
SeqsUpTo(S, n) ==
    IF n = 0 THEN { <<>> }
    ELSE LET shorter == SeqsUpTo(S, n - 1)
         IN  shorter \cup { Append(s, e) : s \in shorter, e \in S }

\* values the body's nextPageCursor can have: missing, null, "", or a token
CursorFields == { Absent, PyNone, "", "c1", "c2" }

\* a body that is not JSON
InvalidBody ==
    [valid |-> FALSE, has_results |-> FALSE, results |-> <<>>, nextPageCursor |-> Absent]

\* bodies that are JSON objects, with or without `results` and `nextPageCursor`
ObjectBodies ==
    { [valid |-> TRUE, has_results |-> TRUE, results |-> r, nextPageCursor |-> c] :
          r \in SeqsUpTo(Entries, MaxItems), c \in CursorFields }
    \cup
    { [valid |-> TRUE, has_results |-> FALSE, results |-> <<>>, nextPageCursor |-> c] :
          c \in CursorFields }

Bodies == ObjectBodies \cup { InvalidBody }

\* one status of each class a response can reach the caller with
\* (httpx does not follow redirects by default)
Statuses == { 200, 302, 404, 500 }

\* response.is_error (line 27): httpx defines it as a 4xx or 5xx status
IsError(status) == status >= 400 /\ status <= 599

\* httpx's is_success: a 2xx status
IsSuccess(status) == status >= 200 /\ status <= 299

\* bodies sent with the other statuses: an error response is returned on before
\* its body is read (line 28) and a redirect is handled like a 2xx response,
\* so a few bodies stand for all of them
OtherBodies ==
    { InvalidBody,
      [valid |-> TRUE, has_results |-> FALSE, results |-> <<>>, nextPageCursor |-> Absent],
      [valid |-> TRUE, has_results |-> TRUE,
       results |-> << [id |-> "1", url |-> "u1", title |-> Absent] >>,
       nextPageCursor |-> PyNone],
      [valid |-> TRUE, has_results |-> TRUE,
       results |-> << [id |-> "2", url |-> "u2", title |-> "T"] >>,
       nextPageCursor |-> "c1"] }

Responses ==
    { [status |-> s, body |-> b] : s \in { t \in Statuses : IsSuccess(t) }, b \in Bodies }
    \cup
    { [status |-> s, body |-> b] : s \in { t \in Statuses : ~IsSuccess(t) }, b \in OtherBodies }

\* value of `response` while no response is at hand
NoResponse == [status |-> 0, body |-> InvalidBody]

----------------------------------------------------------------------------
(* Pure parts of the loop body *)

\* params=... of the request (lines 22-24)
RequestParams(cursor) == IF cursor # PyNone THEN cursor ELSE NoParam

\* response.json() raises on a body that is not JSON (line 30)
JsonRaises(body) == ~body.valid

\* mutant: the check of line 32 is left out
HasResults_Unchecked(body) == TRUE

\* "results" in json_response (line 32)
HasResults(body) == body.has_results

\* mutant: item.get("url") in place of item["url"], so only a missing id raises
ItemRaises_IdOnly(item) == item.id = Absent

\* item["id"], item["url"] raise KeyError on a missing key (line 42)
ItemRaises(item) == item.id = Absent \/ item.url = Absent

\* mutant: item.get("title", "") in place of item.get("title", None)
ParseItem_EmptyTitle(item) ==
    [id |-> item.id, url |-> item.url,
     title |-> IF item.title = Absent THEN "" ELSE item.title]

\* ReadwiseItem(item["id"], item["url"], item.get("title", None)) (line 42)
ParseItem(item) ==
    [id |-> item.id, url |-> item.url,
     title |-> IF item.title = Absent THEN PyNone ELSE item.title]

\* the list comprehension of lines 41-44
ParseItems(entries) == [i \in 1..Len(entries) |-> ParseItem(entries[i])]

\* the comprehension raises as soon as one entry lacks id or url
ParseRaises(entries) == \E i \in 1..Len(entries) : ItemRaises(entries[i])

\* results.extend(parsed_items) (line 49)
Extend(acc, items) == acc \o items

\* mutant: the cursor is taken from the first page that has one and kept
NextCursor_KeepFirst(cursor, body) ==
    IF body.nextPageCursor # Absent /\ cursor = PyNone THEN body.nextPageCursor ELSE cursor

\* mutant: json_response.get("nextPageCursor") assigned without the `in` test
NextCursor_ResetOnAbsent(cursor, body) ==
    IF body.nextPageCursor # Absent THEN body.nextPageCursor ELSE PyNone

\* next_page_cursor after lines 36-37
NextCursor(cursor, body) ==
    IF body.nextPageCursor # Absent THEN body.nextPageCursor ELSE cursor

\* mutant: only a null cursor ends the loop, an empty one does not
NextParsedAll_NullOnly(flag, body) ==
    IF body.nextPageCursor # Absent /\ body.nextPageCursor = PyNone
    THEN TRUE ELSE flag

\* parsed_all_results after lines 36-39
NextParsedAll(flag, body) ==
    IF body.nextPageCursor # Absent
         /\ (body.nextPageCursor = PyNone \/ body.nextPageCursor = "")
    THEN TRUE ELSE flag

\* mutant: a client that is not scoped by `async with` and never closed
AExit_Leak(open) == open

\* the client after the `async with` block is left, by return or by raise (line 16)
AExit(open) == FALSE

----------------------------------------------------------------------------
(* Return values *)

Pending == [kind |-> "pending", items |-> <<>>, exc |-> ""]
ReturnNone == [kind |-> "None", items |-> <<>>, exc |-> ""]
ReturnList(items) == [kind |-> "list", items |-> items, exc |-> ""]
Raise(exc) == [kind |-> "raise", items |-> <<>>, exc |-> exc]

----------------------------------------------------------------------------
(* History of the server's answers *)

\* a success page: 2xx, a JSON object with results, every entry with id and url
IsPage(resp) ==
    /\ resp.status >= 200 /\ resp.status <= 299
    /\ resp.body.valid
    /\ resp.body.has_results
    /\ \A i \in 1..Len(resp.body.results) :
           resp.body.results[i].id # Absent /\ resp.body.results[i].url # Absent

\* the cursor of a page says there is no further page
IsTerminal(resp) == resp.body.nextPageCursor \in { Absent, PyNone, "" }

\* "open": only success pages with a non-empty cursor so far;
\* "closed": such pages and then one terminal success page; "off": anything else
ChainAfter(c, resp) ==
    IF c = "open" /\ IsPage(resp)
    THEN (IF IsTerminal(resp) THEN "closed" ELSE "open")
    ELSE "off"

\* the nextPageCursor value the server supplied most recently
SuppliedAfter(c, resp) ==
    IF resp.body.valid /\ resp.body.nextPageCursor # Absent
    THEN resp.body.nextPageCursor ELSE c

\* the entries of the pages of the chain, in the order answered; emptied once
\* the chain is off
ServedAfter(s, c, resp) ==
    IF ChainAfter(c, resp) = "off" THEN <<>> ELSE s \o resp.body.results

----------------------------------------------------------------------------
(* The coroutine *)

Init ==
    /\ pc = "start"
    /\ results = <<>>
    /\ parsed_all_results = FALSE
    /\ next_page_cursor = PyNone
    /\ client_open = FALSE
    /\ request = NoParam
    /\ n_requests = 0
    /\ in_flight = 0
    /\ response = NoResponse
    /\ returned = Pending
    /\ supplied = PyNone
    /\ served = <<>>
    /\ chain = "open"

\* async with httpx.AsyncClient() as client (line 16)
OpenClient ==
    /\ pc = "start"
    /\ client_open' = TRUE
    /\ pc' = "loop"
    /\ UNCHANGED <<results, parsed_all_results, next_page_cursor, request,
                   n_requests, in_flight, response, returned, supplied,
                   served, chain>>

\* mutant: the next request is sent without awaiting the one in flight
IssueRequest_Pipelined ==
    /\ pc \in { "loop", "await" }
    /\ ~parsed_all_results
    /\ n_requests < MaxRequests
    /\ request' = RequestParams(next_page_cursor)
    /\ n_requests' = n_requests + 1
    /\ in_flight' = in_flight + 1
    /\ response' = NoResponse
    /\ pc' = "await"
    /\ UNCHANGED <<results, parsed_all_results, next_page_cursor, client_open,
                   returned, supplied, served, chain>>

\* while not parsed_all_results: client.get(...) is sent (lines 17-25)
IssueRequest ==
    /\ pc = "loop"
    /\ ~parsed_all_results
    /\ n_requests < MaxRequests
    /\ request' = RequestParams(next_page_cursor)
    /\ n_requests' = n_requests + 1
    /\ in_flight' = in_flight + 1
    /\ response' = NoResponse
    /\ pc' = "await"
    /\ UNCHANGED <<results, parsed_all_results, next_page_cursor, client_open,
                   returned, supplied, served, chain>>

\* the awaited get raises (connection failure, line 18): nothing catches it,
\* so it leaves the `async with` block and then the coroutine
TransportFailure ==
    /\ pc = "await"
    /\ pc' = "Raised"
    /\ client_open' = AExit(client_open)
    /\ returned' = Raise("ConnectError")
    /\ in_flight' = in_flight - 1
    /\ chain' = "off"
    /\ served' = <<>>
    /\ UNCHANGED <<results, parsed_all_results, next_page_cursor, request,
                   n_requests, response, supplied>>

\* mutant: an abort goes round the loop again (continue in place of return None)
Fail_Retry ==
    /\ pc' = "loop"
    /\ UNCHANGED <<results, parsed_all_results, next_page_cursor, client_open, returned>>

\* return None inside the `async with` block (lines 28, 33)
Fail ==
    /\ pc' = "Failed"
    /\ client_open' = AExit(client_open)
    /\ returned' = ReturnNone
    /\ UNCHANGED <<results, parsed_all_results, next_page_cursor>>

\* an exception raised in the loop body leaves the block and the coroutine
RaiseOut(exc) ==
    /\ pc' = "Raised"
    /\ client_open' = AExit(client_open)
    /\ returned' = Raise(exc)

\* lines 35-49 on a parsed body that has `results`
ProcessPage(body) ==
    /\ next_page_cursor' = NextCursor(next_page_cursor, body)
    /\ parsed_all_results' = NextParsedAll(parsed_all_results, body)
    /\ IF ParseRaises(body.results)
       THEN /\ RaiseOut("KeyError")
            /\ UNCHANGED results
       ELSE /\ results' = Extend(results, ParseItems(body.results))
            /\ pc' = "loop"
            /\ UNCHANGED <<client_open, returned>>

\* the get completes with resp and the loop body runs to the next await or
\* to the end of the call (lines 18-49)
HandleResponse(resp) ==
    /\ response' = resp
    /\ IF IsError(resp.status) THEN Fail
       ELSE IF JsonRaises(resp.body)
            THEN /\ RaiseOut("JSONDecodeError")
                 /\ UNCHANGED <<results, parsed_all_results, next_page_cursor>>
       ELSE IF ~HasResults(resp.body) THEN Fail
       ELSE ProcessPage(resp.body)
    /\ supplied' = SuppliedAfter(supplied, resp)
    /\ served' = ServedAfter(served, chain, resp)
    /\ chain' = ChainAfter(chain, resp)
    /\ in_flight' = in_flight - 1
    /\ UNCHANGED <<request, n_requests>>

ReceiveResponse ==
    /\ pc = "await"
    /\ \E resp \in Responses : HandleResponse(resp)

\* the loop condition fails, the block closes the client, return results (line 51)
ReturnResults ==
    /\ pc = "loop"
    /\ parsed_all_results
    /\ pc' = "Done"
    /\ client_open' = AExit(client_open)
    /\ returned' = ReturnList(results)
    /\ UNCHANGED <<results, parsed_all_results, next_page_cursor, request,
                   n_requests, in_flight, response, supplied, served, chain>>

Next ==
    \/ OpenClient
    \/ IssueRequest
    \/ TransportFailure
    \/ ReceiveResponse
    \/ ReturnResults

Spec == Init /\ [][Next]_vars

----------------------------------------------------------------------------
(* Vocabulary of the properties, stated on the answers alone *)

Answered == response.status # 0
Status2xx(r) == r.status >= 200 /\ r.status <= 299
EntryComplete(e) == e.id # Absent /\ e.url # Absent
AllComplete(r) == \A i \in 1..Len(r.body.results) : EntryComplete(r.body.results[i])
\* a 2xx response whose body is a JSON object with results
SuccessPage(r) == Status2xx(r) /\ r.body.valid /\ r.body.has_results
Ended == pc \in { "Done", "Failed", "Raised" }

----------------------------------------------------------------------------
(* C1 .. C10 *)

\* C1: once a response with a non-success status (any status outside 2xx) has
\* been received, the call has returned None: it neither goes on nor returns
\* items nor raises.
C1_NonSuccessStatusYieldsFailure ==
    (Answered /\ ~Status2xx(response)) => (pc = "Failed" /\ returned = ReturnNone)

\* C2: after a success page that has results and no nextPageCursor field the
\* call issues no further request: its next step is to return the accumulator.
C2_AbsentCursorIsTerminal ==
    [][ (pc = "loop" /\ SuccessPage(response) /\ AllComplete(response)
           /\ response.body.nextPageCursor = Absent)
        => (pc' = "Done" /\ returned' = ReturnList(results)) ]_vars

\* C3: when the server has answered success pages p1..pn, all but pn with a
\* non-empty cursor and pn terminal (cursor absent, null or empty), the next
\* step of the call returns items(p1) ++ ... ++ items(pn).
C3_ReturnsAllPagesInOrder ==
    [][ chain = "closed"
        => (pc' = "Done" /\ returned' = ReturnList(ParseItems(served))) ]_vars

\* C4: a success page whose nextPageCursor is present and null or "" has its
\* items appended after the earlier ones, and the step after it returns that
\* accumulator; no request is issued in either step.
C4_EmptyCursorStopsAfterAppending ==
    [][ /\ (pc = "await" /\ SuccessPage(response') /\ AllComplete(response')
              /\ response'.body.nextPageCursor \in { PyNone, "" })
           => /\ pc' = "loop"
              /\ results' = results \o ParseItems(response'.body.results)
              /\ n_requests' = n_requests
        /\ (pc = "loop" /\ SuccessPage(response) /\ AllComplete(response)
              /\ response.body.nextPageCursor \in { PyNone, "" })
           => /\ pc' = "Done"
              /\ returned' = ReturnList(results)
              /\ n_requests' = n_requests ]_vars

C4_Witness ==
    /\ pc = "Done"
    /\ SuccessPage(response)
    /\ response.body.nextPageCursor = ""
    /\ Len(response.body.results) = 2
    /\ Len(returned.items) > 2
    /\ n_requests = 2

\* C5: a 2xx response whose JSON body has no results field ends the call with
\* None, on any page and with or without a nextPageCursor in that body.
C5_MissingResultsYieldsFailure ==
    (Status2xx(response) /\ response.body.valid /\ ~response.body.has_results)
    => (pc = "Failed" /\ returned = ReturnNone)

C5_Witness ==
    /\ pc = "Failed"
    /\ returned = ReturnNone
    /\ Status2xx(response) /\ response.body.valid /\ ~response.body.has_results
    /\ response.body.nextPageCursor = "c1"
    /\ n_requests = 2
    /\ Len(results) > 0

\* C6: a 2xx response whose body is not JSON ends the call with None as its
\* return value.
C6_UnparsableBodyYieldsFailure ==
    (Status2xx(response) /\ ~response.body.valid)
    => (pc = "Failed" /\ returned = ReturnNone)

\* C7: when a request fails at the transport level (the await ends without a
\* response) the call returns None and raises nothing.
C7_TransportFailureYieldsFailure ==
    [][ (pc = "await" /\ pc' # "await" /\ response' = NoResponse)
        => (pc' = "Failed" /\ returned' = ReturnNone /\ returned'.kind # "raise") ]_vars

\* C8: the first request has no pageCursor; a later request carries the
\* nextPageCursor value the server supplied most recently (none while it has
\* supplied none); no request carries null or "".
C8_CursorThreading ==
    /\ (n_requests = 1 => request = NoParam)
    /\ (pc = "await" =>
          request = (IF supplied = PyNone THEN NoParam ELSE supplied))
    /\ request \notin { PyNone, "" }

C8_Witness ==
    /\ pc = "await"
    /\ n_requests = 3
    /\ request = "c2"
    /\ next_page_cursor = "c2"

\* C9: in every state in which the call has ended (returned the accumulator,
\* returned None, or raised) the client is closed.
C9_ClientReleasedOnExit == Ended => ~client_open

C9_Witness ==
    /\ pc = "Failed"
    /\ ~client_open
    /\ n_requests = 2
    /\ Len(results) > 0

\* C10: on a page whose entries all have id and url, every entry becomes the
\* item at its position with the same id and url, with title None when the
\* entry has no title and its title otherwise, and the call does not fail.
C10_MissingTitleParsesToNone ==
    LET b == response.body
        n == Len(b.results)
        off == Len(results) - n
    IN  (SuccessPage(response) /\ AllComplete(response))
        => /\ pc \in { "loop", "Done" }
           /\ off >= 0
           /\ \A i \in 1..n :
                 /\ results[off + i].id = b.results[i].id
                 /\ results[off + i].url = b.results[i].url
                 /\ results[off + i].title =
                        (IF b.results[i].title = Absent THEN PyNone ELSE b.results[i].title)

C10_Witness ==
    /\ pc = "loop"
    /\ SuccessPage(response)
    /\ Len(response.body.results) = 2
    /\ response.body.results[1].title = Absent
    /\ response.body.results[2].title = "T"
    /\ Len(results) = 3
    /\ results[2].title = PyNone
    /\ results[3].title = "T"

----------------------------------------------------------------------------
(* C11 .. C16 *)

\* C11: the call moves Start -> FetchingPage -> {FetchingPage, Done, Failed};
\* in Done and in Failed nothing changes any more (no request, same
\* accumulator); the step that ends the call ends it in Done, with the list,
\* or in Failed, with None; and while a page is being fetched a step to Failed
\* is possible.
C11_StateMachine ==
    [][ /\ (pc = "start" => pc' = "loop")
        /\ (pc \in { "loop", "await" } => pc' \in { "loop", "await", "Done", "Failed" })
        /\ (pc \in { "Done", "Failed" }
              => (pc' = pc /\ n_requests' = n_requests /\ results' = results))
        /\ ((returned = Pending /\ returned' # Pending)
              => \/ (pc' = "Done" /\ returned'.kind = "list")
                 \/ (pc' = "Failed" /\ returned' = ReturnNone))
        /\ (pc = "await" => ENABLED (ReceiveResponse /\ pc' = "Failed")) ]_vars

\* an abort condition: an error status (4xx, 5xx), or a JSON body without results
AbortResponse(r) ==
    \/ (r.status >= 400 /\ r.status <= 599)
    \/ (r.status # 0 /\ r.body.valid /\ ~r.body.has_results)

EndsWithItemsOf(r) ==
    LET n == Len(r.body.results)
        off == Len(results) - n
    IN  /\ off >= 0
        /\ \A i \in 1..n :
              /\ results[off + i].id = r.body.results[i].id
              /\ results[off + i].url = r.body.results[i].url

\* C13: at most one request is in flight, and a request after the first is
\* issued only when none is in flight and the response to the request before
\* it has been received, passed the status and results checks, and had its
\* items appended to the accumulator.
C13_StrictlySequential ==
    [][ /\ in_flight' \in { 0, 1 }
        /\ ((n_requests' = n_requests + 1 /\ n_requests >= 1)
              => /\ in_flight = 0
                 /\ Answered
                 /\ ~AbortResponse(response)
                 /\ response.body.valid
                 /\ AllComplete(response)
                 /\ EndsWithItemsOf(response)) ]_vars

C13_Witness ==
    /\ pc = "await"
    /\ in_flight = 1
    /\ n_requests = 3
    /\ Len(results) = 4

\* C14: a success page with an entry that lacks id or url ends the call with
\* an error raised to the caller while the items are built: the call returns
\* neither None nor a list.
C14_IncompleteEntryRaises ==
    (SuccessPage(response) /\ ~AllComplete(response))
    => /\ pc = "Raised"
       /\ returned.kind = "raise"
       /\ returned.exc = "KeyError"
       /\ returned # ReturnNone
       /\ returned.kind # "list"

C14_Witness ==
    /\ pc = "Raised"
    /\ returned.exc = "KeyError"
    /\ SuccessPage(response)
    /\ Len(response.body.results) = 2
    /\ EntryComplete(response.body.results[1])
    /\ response.body.results[2].url = Absent
    /\ n_requests = 2
    /\ Len(results) > 0

\* C15: the flag parsed_all_results is set, and a list is returned, only when
\* the response just processed is a success response whose body has results
\* and a nextPageCursor field that is null or "".
C15_ReturnsOnlyAfterEmptyCursor ==
    (parsed_all_results \/ returned.kind = "list")
    => /\ SuccessPage(response)
       /\ response.body.nextPageCursor \in { PyNone, "" }

\* C16: processing a success page that has results and no nextPageCursor
\* field leaves next_page_cursor and parsed_all_results as they were and only
\* appends to the accumulator; the step after it issues a request with the
\* same pageCursor parameter as the request just answered.
C16_AbsentCursorKeepsCursorAndFlag ==
    [][ /\ (pc = "await" /\ SuccessPage(response') /\ AllComplete(response')
              /\ response'.body.nextPageCursor = Absent)
           => /\ next_page_cursor' = next_page_cursor
              /\ parsed_all_results' = parsed_all_results
              /\ pc' = "loop"
              /\ Len(results') = Len(results) + Len(response'.body.results)
              /\ SubSeq(results', 1, Len(results)) = results
        /\ (pc = "loop" /\ SuccessPage(response) /\ AllComplete(response)
              /\ response.body.nextPageCursor = Absent)
           => /\ pc' = "await"
              /\ n_requests' = n_requests + 1
              /\ request' = request ]_vars

C16_Witness ==
    /\ pc = "loop"
    /\ SuccessPage(response)
    /\ response.body.nextPageCursor = Absent
    /\ Len(response.body.results) = 2
    /\ next_page_cursor = "c1"
    /\ request = "c1"
    /\ ~parsed_all_results
    /\ n_requests = 2
    /\ Len(results) = 3

====
